---------------------------- MODULE Spec2Model ----------------------------
(***************************************************************************)
(* A model of clap-validator's audio-thread data structures                *)
(* (src/plugin/audio_thread/process.rs), of its parameter tests            *)
(* (src/tests/plugin/params.rs) and of its command line entry point        *)
(* (src/main.rs).                                                          *)
(*                                                                         *)
(* Each component has its own variables, its own initial predicate and its *)
(* own specification; the variables of the other components stay at their  *)
(* idle values.                                                            *)
(***************************************************************************)
EXTENDS Integers, Sequences, FiniteSets

VARIABLES
    inputs,     \* &[Vec<Vec<f32>>]: per port, per channel, the channel's sample count
    outputs,    \* &mut [Vec<Vec<f32>>], likewise
    bufs,       \* the Result<OutOfPlaceAudioBuffers> of OutOfPlaceAudioBuffers::new
    ret,        \* the value the last accessor call returned
    pd,         \* the ProcessData: sample_pos, sample_rate, transport_info
    overflow_checks, \* whether the build panics on integer overflow (debug) or wraps
    advanced,   \* history: the arguments of the completed advance_transport calls
    status,     \* "ok", or "panicked" once a call has panicked
    new_args,   \* history: the arguments ProcessData::new was called with
    cv,         \* test_convert_params: its position, its locals and its result
    cvSeen,     \* history: what the plugin answered to test_convert_params
    plug,       \* the plugin under test: its parameter values, and whether it
                \* looks at an event's namespace
    runlog,     \* history: the number of processed blocks, and the input queue
                \* of each block of the current ProcessingTest run
    ns,         \* test_wrong_namespace_set_params: position, locals, result
    fz,         \* test_random_fuzz_params: position, locals, result
    cli,        \* main: the command line, the parsed command, how it ended
    calls       \* history: the calls a test made to its plugin and host, and
                \* the host's record of thread-safety violations

bufVars == <<inputs, outputs, bufs, ret>>
tpVars == <<pd, overflow_checks, advanced, status, new_args>>
cvVars == <<cv, cvSeen>>
envVars == <<plug, runlog>>
nsVars == <<ns>>
fzVars == <<fz>>
mainVars == <<cli>>
logVars == <<calls>>
vars == <<bufVars, tpVars, cvVars, envVars, nsVars, fzVars, mainVars, logVars>>

(***************************************************************************)
(* Option<T>: None is the empty sequence, Some(v) the one-element sequence. *)
(***************************************************************************)
None == <<>>
Some(v) == <<v>>
UnwrapOr(opt, default) == IF opt = None THEN default ELSE opt[1]


(***************************************************************************)
(* Arithmetic.  TLC's integers are 32 bits wide, too narrow for the u32    *)
(* sample position, the i64 song positions and the 53-bit significand of   *)
(* an f64.  A natural number is therefore a sequence of limbs in base      *)
(* 2^13, most significant first, without leading zero limbs (0 is the      *)
(* empty sequence); a non-negative finite f64 is [m, e] with value         *)
(* m * 2^e, m of exactly 53 bits (or 0, for 0.0).                          *)
(***************************************************************************)
LimbBits == 13
Base == 2 ^ LimbBits

Front(a) == SubSeq(a, 1, Len(a) - 1)
Last(a) == a[Len(a)]

RECURSIVE Strip(_)
Strip(a) == IF a # <<>> /\ Head(a) = 0 THEN Strip(Tail(a)) ELSE a

\* The limbs of an integer 0 <= n < 2^31.
RECURSIVE Limbs(_)
Limbs(n) == IF n = 0 THEN <<>> ELSE Limbs(n \div Base) \o <<n % Base>>

RECURSIVE AddCarry(_, _, _)
AddCarry(a, b, carry) ==
    IF a = <<>> /\ b = <<>> THEN Limbs(carry)
    ELSE LET x == IF a = <<>> THEN 0 ELSE Last(a)
             y == IF b = <<>> THEN 0 ELSE Last(b)
             s == x + y + carry
         IN  AddCarry(IF a = <<>> THEN a ELSE Front(a),
                      IF b = <<>> THEN b ELSE Front(b), s \div Base)
                 \o <<s % Base>>
Add(a, b) == Strip(AddCarry(a, b, 0))

\* a - b for a >= b
RECURSIVE SubBorrow(_, _, _)
SubBorrow(a, b, borrow) ==
    IF a = <<>> THEN <<>>
    ELSE LET y == IF b = <<>> THEN 0 ELSE Last(b)
             s == Last(a) - y - borrow
         IN  SubBorrow(Front(a), IF b = <<>> THEN b ELSE Front(b),
                       IF s < 0 THEN 1 ELSE 0)
                 \o <<IF s < 0 THEN s + Base ELSE s>>
Sub(a, b) == Strip(SubBorrow(a, b, 0))

\* a * c for a small factor 0 < c < 2^18
RECURSIVE MulCarry(_, _, _)
MulCarry(a, c, carry) ==
    IF a = <<>> THEN Limbs(carry)
    ELSE LET s == Last(a) * c + carry
         IN  MulCarry(Front(a), c, s \div Base) \o <<s % Base>>
Mul(a, c) == Strip(MulCarry(a, c, 0))

\* Long division of a by a small divisor 0 < d < 2^18: quotient and remainder.
RECURSIVE DivStep(_, _, _, _)
DivStep(a, d, r, q) ==
    IF a = <<>> THEN [q |-> Strip(q), r |-> r]
    ELSE LET x == r * Base + Head(a)
         IN  DivStep(Tail(a), d, x % d, Append(q, x \div d))
Div(a, d) == DivStep(a, d, 0, <<>>)

RECURSIVE Less(_, _)
Less(a, b) ==
    IF Len(a) # Len(b) THEN Len(a) < Len(b)
    ELSE IF a = <<>> THEN FALSE
    ELSE IF Head(a) # Head(b) THEN Head(a) < Head(b)
    ELSE Less(Tail(a), Tail(b))
Leq(a, b) == a = b \/ Less(a, b)

\* The number of bits of a limb, and of a natural number.
LimbLen(x) == CHOOSE k \in 0..LimbBits : x < 2 ^ k /\ (k = 0 \/ x >= 2 ^ (k - 1))
BitLen(a) == IF a = <<>> THEN 0 ELSE LimbBits * (Len(a) - 1) + LimbLen(Head(a))
IsOdd(a) == a # <<>> /\ Last(a) % 2 = 1

\* a * 2^k
ShiftLeft(a, k) ==
    IF a = <<>> THEN a
    ELSE Mul(a, 2 ^ (k % LimbBits)) \o [i \in 1..(k \div LimbBits) |-> 0]

\* a \div 2^k, and whether a non-zero remainder was dropped
ShiftRight(a, k) ==
    LET limbs == k \div LimbBits
        kept == IF limbs >= Len(a) THEN <<>> ELSE SubSeq(a, 1, Len(a) - limbs)
        qr == Div(kept, 2 ^ (k % LimbBits))
    IN  [q |-> qr.q,
         sticky |-> qr.r # 0 \/
                    \E i \in DOMAIN a : i > Len(a) - limbs /\ a[i] # 0]

Pow2(k) == ShiftLeft(<<1>>, k)

\* The width of an f64's significand.
MantissaBits == 53
F64Zero == [m |-> <<>>, e |-> 0]

\* Round the exact value n * 2^e (plus, with sticky, a non-zero amount below
\* its last bit) to the nearest f64, ties to even.
RoundNearestEven(n, e, sticky) ==
    IF n = <<>> THEN F64Zero
    ELSE IF BitLen(n) <= MantissaBits
    THEN [m |-> ShiftLeft(n, MantissaBits - BitLen(n)),
          e |-> e - (MantissaBits - BitLen(n))]
    ELSE LET drop == BitLen(n) - MantissaBits
             withGuard == ShiftRight(n, drop - 1)
             keep == ShiftRight(withGuard.q, 1).q
             up == IsOdd(withGuard.q)
                   /\ (withGuard.sticky \/ sticky \/ IsOdd(keep))
             m2 == IF up THEN Add(keep, <<1>>) ELSE keep
         IN  IF BitLen(m2) > MantissaBits
             THEN [m |-> ShiftRight(m2, 1).q, e |-> e + drop + 1]
             ELSE [m |-> m2, e |-> e + drop]

\* `n as f64` for an integer of at most 53 bits: exact.
F64From(n) == RoundNearestEven(n, 0, FALSE)

\* x / d in f64, for a divisor with the integer value d < 2^18.
F64Div(x, d) ==
    LET k == 20
        qr == Div(ShiftLeft(x.m, k), d)
    IN  RoundNearestEven(qr.q, x.e - k, qr.r # 0)

\* x * c in f64, for a factor with the integer value c < 2^18.
F64Mul(x, c) == RoundNearestEven(Mul(x.m, c), x.e, FALSE)

\* x * 2^k in f64: exact.
F64Scale(x, k) == IF x.m = <<>> THEN x ELSE [x EXCEPT !.e = @ + k]

\* f64::round(): to the nearest integer, halves away from zero.
F64Round(x) ==
    IF x.m = <<>> THEN <<>>
    ELSE IF x.e >= 0 THEN ShiftLeft(x.m, x.e)
    ELSE IF -x.e > MantissaBits THEN <<>>
    ELSE LET withHalf == ShiftRight(x.m, -x.e - 1).q
             whole == ShiftRight(withHalf, 1).q
         IN  IF IsOdd(withHalf) THEN Add(whole, <<1>>) ELSE whole

\* The width of an i64 without its sign bit.
I64Bits == 63
\* `as i64` of a non-negative integer-valued f64: saturating.
AsI64(n) == IF BitLen(n) > I64Bits THEN Sub(Pow2(I64Bits), <<1>>) ELSE n

(***************************************************************************)
(* ProcessData and its transport                                           *)
(***************************************************************************)

\* The largest number of advance_transport calls on one ProcessData.
MaxCalls == 3

\* clap_sys::fixedpoint: CLAP_BEATTIME_FACTOR and CLAP_SECTIME_FACTOR are
\* 1 << 31; the exponent is what the model uses.
BeatTimeShift == 31
SecTimeShift == 31
\* The width of sample_pos: u32.
SamplePosBits == 32

\* The constructor arguments the model draws: sample rates and tempos with
\* integer values, and time signatures.
SampleRates == {44100, 48000}
Tempos == {90, 120}
TimeSigs == {<<4, 4>>, <<6, 8>>}
\* The arguments of advance_transport: a block of 512 samples, half a second
\* at 48 kHz, 2^31 and u32::MAX.
SampleArgs == {Limbs(512), Limbs(24000), Pow2(31), Sub(Pow2(SamplePosBits), <<1>>)}

TransportFlags ==
    {"HAS_TEMPO", "HAS_BEATS_TIMELINE", "HAS_SECONDS_TIMELINE",
     "HAS_TIME_SIGNATURE", "IS_PLAYING"}

\* ProcessData::new
NewProcessData(sample_rate, tempo, time_sig_numerator, time_sig_denominator) ==
    [transport_info |->
        [flags |-> TransportFlags,
         song_pos_beats |-> <<>>,
         song_pos_seconds |-> <<>>,
         tempo |-> tempo,
         tsig_num |-> time_sig_numerator,
         tsig_denom |-> time_sig_denominator],
     sample_pos |-> <<>>,
     sample_rate |-> sample_rate]

\* ((sample_pos as f64 / sample_rate / 60.0 * tempo)
\*     * CLAP_BEATTIME_FACTOR as f64).round() as i64
SongPosBeats(sample_pos, sample_rate, tempo) ==
    AsI64(F64Round(F64Scale(
        F64Mul(F64Div(F64Div(F64From(sample_pos), sample_rate), 60), tempo),
        BeatTimeShift)))

\* ((sample_pos as f64 / sample_rate) * CLAP_SECTIME_FACTOR as f64).round() as i64
SongPosSeconds(sample_pos, sample_rate) ==
    AsI64(F64Round(F64Scale(
        F64Div(F64From(sample_pos), sample_rate), SecTimeShift)))

\* The bits of n that a u32 keeps.
WrapU32(n) == Sub(n, ShiftLeft(ShiftRight(n, SamplePosBits).q, SamplePosBits))

PositionFromArgument(p, samples) == samples

\* The sample position the song positions are computed from: self.sample_pos,
\* after the addition.
PositionUsed(p, samples) == p.sample_pos

\* The body of advance_transport once `self.sample_pos += samples` has
\* produced new_pos.
AdvanceAndStop(p, samples, new_pos) ==
    [p EXCEPT !.sample_pos = new_pos,
              !.transport_info.flags = @ \ {"IS_PLAYING"}]

AdvanceTransportBody(p, samples, new_pos) ==
    LET q == [p EXCEPT !.sample_pos = new_pos]
        pos == PositionUsed(q, samples)
    IN  [q EXCEPT
            !.transport_info.song_pos_beats =
                SongPosBeats(pos, q.sample_rate, q.transport_info.tempo),
            !.transport_info.song_pos_seconds =
                SongPosSeconds(pos, q.sample_rate)]

NewArgs(sample_rate, tempo, time_sig_numerator, time_sig_denominator) ==
    [sample_rate |-> sample_rate, tempo |-> tempo,
     time_sig_numerator |-> time_sig_numerator,
     time_sig_denominator |-> time_sig_denominator]

IdlePd == NewProcessData(48000, 120, 4, 4)

IdleTransport ==
    /\ pd = IdlePd
    /\ new_args = NewArgs(48000, 120, 4, 4)
    /\ overflow_checks = FALSE
    /\ advanced = <<>>
    /\ status = "idle"

\* ProcessData::advance_transport(samples).  `+=` on a u32 that overflows
\* panics in a build with overflow checks and wraps in one without.
AdvanceTransport ==
    /\ status = "ok"
    /\ Len(advanced) < MaxCalls
    /\ \E samples \in SampleArgs :
        LET sum == Add(pd.sample_pos, samples)
        IN  IF BitLen(sum) > SamplePosBits /\ overflow_checks
            THEN /\ status' = "panicked"
                 /\ UNCHANGED <<pd, advanced>>
            ELSE /\ pd' = AdvanceTransportBody(pd, samples, WrapU32(sum))
                 /\ advanced' = Append(advanced, samples)
                 /\ UNCHANGED status
    /\ UNCHANGED <<overflow_checks, new_args, bufVars, cvVars, envVars, nsVars,
                    fzVars, mainVars, logVars>>

(***************************************************************************)
(* OutOfPlaceAudioBuffers                                                  *)
(***************************************************************************)

\* The largest number of ports per direction.
MaxPorts == 2
\* The channel counts of a port: none, mono, stereo.
ChannelCounts == {0, 1, 2}
\* The sample counts a channel may have.
SampleCounts == {0, 8}

PortShapes == UNION {[1..k -> SampleCounts] : k \in ChannelCounts}
PortLists == UNION {[1..k -> PortShapes] : k \in 0..MaxPorts}

\* All channels of all ports of one direction, in iteration order.
RECURSIVE Flatten(_)
Flatten(ports) ==
    IF ports = <<>> THEN <<>> ELSE Head(ports) \o Flatten(Tail(ports))

ChainInputsOnly(ins, outs) == Flatten(ins)

\* inputs.iter().chain(outputs.iter()), each port's channels in turn.
ChainedChannels(ins, outs) == Flatten(ins) \o Flatten(outs)

\* The loop of OutOfPlaceAudioBuffers::new over the channel slices: the first
\* channel sets num_samples, any later channel of another length bails.
RECURSIVE CheckSampleCounts(_, _)
CheckSampleCounts(chans, num_samples) ==
    IF chans = <<>> THEN [err |-> FALSE, num_samples |-> num_samples]
    ELSE IF num_samples # None /\ Head(chans) # num_samples[1]
         THEN [err |-> TRUE, num_samples |-> num_samples]
         ELSE IF num_samples # None
              THEN CheckSampleCounts(Tail(chans), num_samples)
              ELSE CheckSampleCounts(Tail(chans), Some(Head(chans)))

\* Vec::as_ptr(): the base pointer of a channel's storage. Every non-empty
\* channel is an allocation of its own; a vector without storage has the
\* dangling pointer.
AsPtr(dir, port, chan, len) ==
    IF len = 0 THEN <<"dangling">> ELSE <<dir, port, chan>>

\* ports.iter().map(|channel_slices| channel_slices.iter().map(as_ptr))
ChannelPointers(dir, ports) ==
    [p \in 1..Len(ports) |->
        [c \in 1..Len(ports[p]) |-> AsPtr(dir, p, c, ports[p][c])]]

NoBufs ==
    [state |-> "unbuilt", num_samples |-> 0,
     input_channel_pointers |-> <<>>, output_channel_pointers |-> <<>>]

NewBody(ins, outs) ==
    LET chk == CheckSampleCounts(ChainedChannels(ins, outs), None)
    IN  IF chk.err
        THEN [NoBufs EXCEPT !.state = "Err"]
        ELSE [state |-> "Ok",
              num_samples |-> UnwrapOr(chk.num_samples, 0),
              input_channel_pointers |-> ChannelPointers("in", ins),
              output_channel_pointers |-> ChannelPointers("out", outs)]

NoRet == [fn |-> "none", len |-> 0, ptrs |-> <<>>]

IdleBuffers ==
    /\ inputs = <<>>
    /\ outputs = <<>>
    /\ bufs = NoBufs
    /\ ret = NoRet

\* OutOfPlaceAudioBuffers::new(inputs, outputs)
New ==
    /\ bufs.state = "unbuilt"
    /\ bufs' = NewBody(inputs, outputs)
    /\ UNCHANGED <<inputs, outputs, ret, tpVars, cvVars, envVars, nsVars, fzVars, mainVars, logVars>>

LenOfPorts(b) == Len(b.input_channel_pointers)

LenBody(b) == b.num_samples

\* OutOfPlaceAudioBuffers::len()
CallLen ==
    /\ bufs.state = "Ok"
    /\ ret' = [fn |-> "len", len |-> LenBody(bufs), ptrs |-> <<>>]
    /\ UNCHANGED <<inputs, outputs, bufs, tpVars, cvVars, envVars, nsVars, fzVars, mainVars, logVars>>

InputChannelPointersBody(b) == b.input_channel_pointers

\* OutOfPlaceAudioBuffers::input_channel_pointers()
CallInputChannelPointers ==
    /\ bufs.state = "Ok"
    /\ ret' = [fn |-> "input_channel_pointers", len |-> 0,
               ptrs |-> InputChannelPointersBody(bufs)]
    /\ UNCHANGED <<inputs, outputs, bufs, tpVars, cvVars, envVars, nsVars, fzVars, mainVars, logVars>>

\* The body returns the input table.
OutputChannelPointersBody(b) == b.input_channel_pointers

\* OutOfPlaceAudioBuffers::output_channel_pointers()
CallOutputChannelPointers ==
    /\ bufs.state = "Ok"
    /\ ret' = [fn |-> "output_channel_pointers", len |-> 0,
               ptrs |-> OutputChannelPointersBody(bufs)]
    /\ UNCHANGED <<inputs, outputs, bufs, tpVars, cvVars, envVars, nsVars, fzVars, mainVars, logVars>>

(***************************************************************************)
(* test_convert_params.  The plugin is the environment: each call into it  *)
(* returns any of the results its signature allows.  One action is one     *)
(* call together with what the test does with the result, up to the next   *)
(* call.                                                                   *)
(***************************************************************************)

\* The largest number of parameters params.info() returns.
MaxParams == 2
\* const VALUES_PER_PARAM
VALUES_PER_PARAM == 6

\* The strings value_to_text may produce and the f64 values text_to_value may
\* produce.
Texts == {"a", "b"}
F64Values == {"0.0", "-0.0", "1.0", "NaN"}

\* Result<Option<T>> of a params call: Err, Ok(None) or Ok(Some(v)).
Answers(S) ==
    {[kind |-> "Err", v |-> ""], [kind |-> "None", v |-> ""]}
        \cup {[kind |-> "Some", v |-> x] : x \in S}

\* f64's `!=`: NaN differs from everything, the two zeros are equal.
F64Ne(a, b) ==
    \/ a = "NaN"
    \/ b = "NaN"
    \/ (a # b /\ {a, b} # {"0.0", "-0.0"})

StrNeNever(a, b) == FALSE

\* String's `!=`
StrNe(a, b) == a # b

NeverPartial(num_supported, expected_conversions) == FALSE

\* !(num_supported == 0 || num_supported == expected_conversions)
PartialSupport(num_supported, expected_conversions) ==
    ~(num_supported = 0 \/ num_supported = expected_conversions)

(***************************************************************************)
(* The host's view of a test: the calls made so far, and the record its    *)
(* thread-safety audit reads.                                              *)
(***************************************************************************)

CallsIdle ==
    [created |-> "no",      \* "ok" / "failed" once create_plugin has returned
     inited |-> "no",       \* "ok" / "failed" once init has returned
     made |-> {},           \* the kinds of calls made so far
     early |-> {},          \* those made before the call they must follow
                            \* had succeeded
     last |-> "none",       \* the kind of the last call
     violation |-> FALSE,   \* the host has recorded a thread-safety violation
     check |-> "none"]      \* "passed" / "failed" once thread_safety_check ran

IdleCalls == calls = CallsIdle

\* The test makes the calls `kinds`, in this order, and the host records a
\* thread-safety violation during them or not.
Called(h, kinds, violated) ==
    LET ks == {kinds[i] : i \in DOMAIN kinds}
    IN  [h EXCEPT
            !.made = @ \cup ks,
            !.early = @ \cup
                {k \in ks : \/ k = "init" /\ h.created # "ok"
                            \/ k \notin {"create_plugin", "init"} /\ h.inited # "ok"},
            !.last = kinds[Len(kinds)],
            !.violation = @ \/ violated]

\* Host::thread_safety_check(): Ok when no violation has been recorded since
\* the instance was created.
ThreadSafetyCheck(h) == ~h.violation

Checked(h) ==
    [h EXCEPT !.made = @ \cup {"thread_safety_check"},
              !.last = "thread_safety_check",
              !.check = IF ThreadSafetyCheck(h) THEN "passed" ELSE "failed"]

CvIdle ==
    [pc |-> "idle", result |-> "none", why |-> "",
     num_params |-> 0, param |-> 0, value |-> 0,
     num_supported_value_to_text |-> 0, num_supported_text_to_value |-> 0,
     starting_text |-> "", reconverted_value |-> "", reconverted_text |-> ""]

CvSeenIdle ==
    [value_to_text |-> 0, text_to_value |-> 0, mismatch |-> FALSE]

IdleConvert ==
    /\ cv = CvIdle
    /\ cvSeen = CvSeenIdle

\* `return Ok(status)`, and `?` or bail! with an error
CvReturn(c, test_status) == [c EXCEPT !.pc = "done", !.result = test_status]
CvFail(c, why) == [c EXCEPT !.pc = "done", !.result = "Err", !.why = why]

\* What follows the two loops: the two all-or-nothing checks, then the call of
\* host.thread_safety_check().
CvAfterLoops(c) ==
    LET expected_conversions == c.num_params * VALUES_PER_PARAM
    IN  IF PartialSupport(c.num_supported_value_to_text, expected_conversions)
        THEN CvFail(c, "value_to_text supported for some calls only")
        ELSE IF PartialSupport(c.num_supported_text_to_value, expected_conversions)
        THEN CvFail(c, "text_to_value supported for some calls only")
        ELSE [c EXCEPT !.pc = "thread_safety_check"]

\* The locals of one iteration of the value loop go out of scope.
CvDropLocals(c) ==
    [c EXCEPT !.starting_text = "", !.reconverted_value = "",
              !.reconverted_text = ""]

\* `continue 'param_loop`, and the end of the value loop's last iteration
CvNextParam(c) ==
    IF c.param < c.num_params
    THEN [CvDropLocals(c) EXCEPT !.pc = "value_to_text", !.param = @ + 1, !.value = 1]
    ELSE CvAfterLoops(CvDropLocals(c))

\* `continue 'value_loop`, and the end of an iteration of the value loop
CvNextValue(c) ==
    IF c.value < VALUES_PER_PARAM
    THEN [CvDropLocals(c) EXCEPT !.pc = "value_to_text", !.value = @ + 1]
    ELSE CvNextParam(c)

CvCreatedUnchecked(c, ok) == [c EXCEPT !.pc = "init"]

\* .context("Could not create the plugin instance")?
CvCreated(c, ok) ==
    IF ok THEN [c EXCEPT !.pc = "init"]
          ELSE CvFail(c, "Could not create the plugin instance")

\* library.create_plugin(plugin_id, host.clone())
CvCreatePlugin ==
    /\ cv.pc = "create_plugin"
    /\ \E ok \in BOOLEAN, violated \in BOOLEAN :
          /\ cv' = CvCreated(cv, ok)
          /\ calls' = [Called(calls, <<"create_plugin">>, violated)
                          EXCEPT !.created = IF ok THEN "ok" ELSE "failed"]
    /\ UNCHANGED <<cvSeen, bufVars, tpVars, envVars, nsVars, fzVars, mainVars>>

\* plugin.init()
CvInit ==
    /\ cv.pc = "init"
    /\ \E ok \in BOOLEAN, violated \in BOOLEAN :
          /\ cv' = IF ok THEN [cv EXCEPT !.pc = "get_extension"]
                         ELSE CvFail(cv, "Error during initialization")
          /\ calls' = [Called(calls, <<"init">>, violated)
                          EXCEPT !.inited = IF ok THEN "ok" ELSE "failed"]
    /\ UNCHANGED <<cvSeen, bufVars, tpVars, envVars, nsVars, fzVars, mainVars>>

\* plugin.get_extension::<Params>(), then host.handle_callbacks_once()
CvGetExtension ==
    /\ cv.pc = "get_extension"
    /\ \E supported \in BOOLEAN, violated \in BOOLEAN :
          /\ cv' = IF supported THEN [cv EXCEPT !.pc = "info"]
                                ELSE CvReturn(cv, "Skipped")
          /\ calls' = Called(calls,
                             IF supported
                             THEN <<"get_extension", "handle_callbacks_once">>
                             ELSE <<"get_extension">>, violated)
    /\ UNCHANGED <<cvSeen, bufVars, tpVars, envVars, nsVars, fzVars, mainVars>>

\* params.info(), and the entry into the parameter loop
CvInfo ==
    /\ cv.pc = "info"
    /\ \/ cv' = CvFail(cv, "Failure while fetching the plugin's parameters")
       \/ \E n \in 0..MaxParams :
             cv' = CvNextParam([cv EXCEPT !.num_params = n])
    /\ \E violated \in BOOLEAN : calls' = Called(calls, <<"info">>, violated)
    /\ UNCHANGED <<cvSeen, bufVars, tpVars, envVars, nsVars, fzVars, mainVars>>

\* params.value_to_text(param_id, starting_value)
CvValueToText ==
    /\ cv.pc = "value_to_text"
    /\ \E a \in Answers(Texts) :
          /\ cv' = CASE a.kind = "Err" -> CvFail(cv, "value_to_text")
                     [] a.kind = "None" -> CvNextParam(cv)
                     [] OTHER ->
                          [cv EXCEPT !.pc = "text_to_value",
                                     !.starting_text = a.v,
                                     !.num_supported_value_to_text = @ + 1]
          /\ cvSeen' = IF a.kind = "Some"
                       THEN [cvSeen EXCEPT !.value_to_text = @ + 1]
                       ELSE cvSeen
    /\ \E violated \in BOOLEAN : calls' = Called(calls, <<"value_to_text">>, violated)
    /\ UNCHANGED <<bufVars, tpVars, envVars, nsVars, fzVars, mainVars>>

\* params.text_to_value(param_id, &starting_text)
CvTextToValue ==
    /\ cv.pc = "text_to_value"
    /\ \E a \in Answers(F64Values) :
          /\ cv' = CASE a.kind = "Err" -> CvFail(cv, "text_to_value")
                     [] a.kind = "None" -> CvNextValue(cv)
                     [] OTHER ->
                          [cv EXCEPT !.pc = "value_to_text_again",
                                     !.reconverted_value = a.v,
                                     !.num_supported_text_to_value = @ + 1]
          /\ cvSeen' = IF a.kind = "Some"
                       THEN [cvSeen EXCEPT !.text_to_value = @ + 1]
                       ELSE cvSeen
    /\ \E violated \in BOOLEAN : calls' = Called(calls, <<"text_to_value">>, violated)
    /\ UNCHANGED <<bufVars, tpVars, envVars, nsVars, fzVars, mainVars>>

\* params.value_to_text(param_id, reconverted_value), and the comparison of the
\* two strings
CvValueToTextAgain ==
    /\ cv.pc = "value_to_text_again"
    /\ \E a \in Answers(Texts) :
          /\ cv' = CASE a.kind = "Err" -> CvFail(cv, "value_to_text")
                     [] a.kind = "None" ->
                          CvFail(cv, "Failure in repeated value to text conversion")
                     [] OTHER ->
                          IF StrNe(cv.starting_text, a.v)
                          THEN CvFail([cv EXCEPT !.reconverted_text = a.v],
                                      "texts not consistent")
                          ELSE [cv EXCEPT !.pc = "text_to_value_again",
                                          !.reconverted_text = a.v]
          /\ cvSeen' = IF a.kind = "None" \/ (a.kind = "Some" /\ a.v # cv.starting_text)
                       THEN [cvSeen EXCEPT !.mismatch = TRUE]
                       ELSE cvSeen
    /\ \E violated \in BOOLEAN : calls' = Called(calls, <<"value_to_text">>, violated)
    /\ UNCHANGED <<bufVars, tpVars, envVars, nsVars, fzVars, mainVars>>

\* params.text_to_value(param_id, &reconverted_text), and the comparison of the
\* two values
CvTextToValueAgain ==
    /\ cv.pc = "text_to_value_again"
    /\ \E a \in Answers(F64Values) :
          /\ cv' = CASE a.kind = "Err" -> CvFail(cv, "text_to_value")
                     [] a.kind = "None" ->
                          CvFail(cv, "Failure in repeated text to value conversion")
                     [] OTHER ->
                          IF F64Ne(a.v, cv.reconverted_value)
                          THEN CvFail(cv, "values not consistent")
                          ELSE CvNextValue(cv)
          /\ cvSeen' =
                IF \/ a.kind = "None"
                   \/ /\ a.kind = "Some"
                      /\ ~(\/ (a.v = cv.reconverted_value /\ a.v # "NaN")
                           \/ {a.v, cv.reconverted_value} = {"0.0", "-0.0"})
                THEN [cvSeen EXCEPT !.mismatch = TRUE]
                ELSE cvSeen
    /\ \E violated \in BOOLEAN : calls' = Called(calls, <<"text_to_value">>, violated)
    /\ UNCHANGED <<bufVars, tpVars, envVars, nsVars, fzVars, mainVars>>

\* host.thread_safety_check(), and the test's verdict
CvThreadSafetyCheck ==
    /\ cv.pc = "thread_safety_check"
    /\ LET ok == ThreadSafetyCheck(calls)
       IN  cv' = IF ~ok THEN CvFail(cv, "Thread safety checks failed")
                 ELSE IF \/ cv.num_supported_value_to_text = 0
                         \/ cv.num_supported_text_to_value = 0
                 THEN CvReturn(cv, "Skipped")
                 ELSE CvReturn(cv, "Success")
    /\ calls' = Checked(calls)
    /\ UNCHANGED <<cvSeen, bufVars, tpVars, envVars, nsVars, fzVars, mainVars>>

(***************************************************************************)
(* The plugin, the parameter fuzzer and the ProcessingTest driver, shared   *)
(* by the two processing tests.                                            *)
(***************************************************************************)

\* const BUFFER_SIZE
BUFFER_SIZE == 512
\* clap_sys::events::CLAP_CORE_EVENT_SPACE_ID
CLAP_CORE_EVENT_SPACE_ID == 0
\* const INCORRECT_NAMESPACE_ID: u16 = 0xb33f
INCORRECT_NAMESPACE_ID == 45887

\* The values the fuzzer draws for a parameter, and the values a plugin may
\* report for one.
FuzzValues == {"0.3", "0.9"}
PluginValues == FuzzValues \cup {"NaN"}

PlugIdle == [values |-> <<>>, checks_namespace |-> TRUE]
RunlogIdle == [blocks |-> 0, samples |-> 0, queues |-> <<>>]

IdleEnv ==
    /\ plug = PlugIdle
    /\ runlog = RunlogIdle

\* ParamFuzzer::randomize_params_at(prng, time): one ParamValue event per
\* parameter, in the core namespace, with a value drawn for it.
RandomizeParamsAt(values, time) ==
    [p \in DOMAIN values |->
        [type |-> "ParamValue", param_id |-> p, time |-> time,
         space_id |-> CLAP_CORE_EVENT_SPACE_ID, value |-> values[p]]]

\* The stable sort of the input queue by time, for a queue whose events are
\* at time 0 or at one later time.
SortByTime(queue) ==
    SelectSeq(queue, LAMBDA e : e.time = 0) \o SelectSeq(queue, LAMBDA e : e.time # 0)

\* What the plugin makes of one block: a ParamValue event sets its parameter
\* when it is in the core namespace, or when the plugin does not look at the
\* namespace; the last such event for a parameter wins.
Accepts(p, event) ==
    /\ event.type = "ParamValue"
    /\ event.space_id = CLAP_CORE_EVENT_SPACE_ID \/ ~p.checks_namespace

PluginProcess(p, queue) ==
    [p EXCEPT !.values =
        [i \in DOMAIN p.values |->
            LET hits == SelectSeq(queue, LAMBDA e : Accepts(p, e) /\ e.param_id = i)
            IN  IF hits = <<>> THEN p.values[i] ELSE hits[Len(hits)].value]]

\* One block of ProcessingTest::run, of num_samples samples: the queue the
\* setup closure left is sorted and handed to the plugin.
LogBlock(log, queue, num_samples) ==
    [blocks |-> log.blocks + 1, samples |-> log.samples + num_samples,
     queues |-> Append(log.queues, queue)]

\* ProcessingTest::run, at the start of each block: the input queue is reset.
ResetQueue(queue) == <<>>

\* The note events NoteGenerator::fill_event_queue may add to a block.
NoteEvent(time) ==
    [type |-> "NoteOn", param_id |-> 0, time |-> time,
     space_id |-> CLAP_CORE_EVENT_SPACE_ID, value |-> "0.0"]
NoteChoices == {<<>>, <<NoteEvent(BUFFER_SIZE \div 2)>>}

\* NoteGenerator::fill_event_queue(prng, queue, num_samples): adds the note
\* events and sorts the queue.
FillEventQueue(queue, notes) == SortByTime(queue \o notes)

(***************************************************************************)
(* test_wrong_namespace_set_params                                         *)
(***************************************************************************)

NsIdle ==
    [pc |-> "idle", result |-> "none", why |-> "", num_params |-> 0,
     initial_param_values |-> <<>>, actual_param_values |-> <<>>]

IdleNamespace == ns = NsIdle

NsReturn(c, test_status) == [c EXCEPT !.pc = "done", !.result = test_status]
NsFail(c, why) == [c EXCEPT !.pc = "done", !.result = "Err", !.why = why]

KeepNamespace(events) == events

\* for event in random_param_set_events.iter_mut():
\*     event.header.space_id = INCORRECT_NAMESPACE_ID
SetNamespace(events) ==
    [i \in DOMAIN events |-> [events[i] EXCEPT !.space_id = INCORRECT_NAMESPACE_ID]]

\* f64's `==`
F64Eq(a, b) == a # "NaN" /\ b # "NaN" /\ a = b

MapsAlwaysEqual(a, b) == TRUE

\* BTreeMap<clap_id, f64>'s `==`
MapsEqual(a, b) ==
    /\ DOMAIN a = DOMAIN b
    /\ \A k \in DOMAIN a : F64Eq(a[k], b[k])

\* library.create_plugin(plugin_id, host.clone())
NsCreatePlugin ==
    /\ ns.pc = "create_plugin"
    /\ \E ok \in BOOLEAN, violated \in BOOLEAN :
          /\ ns' = IF ok THEN [ns EXCEPT !.pc = "init"]
                         ELSE NsFail(ns, "Could not create the plugin instance")
          /\ calls' = [Called(calls, <<"create_plugin">>, violated)
                          EXCEPT !.created = IF ok THEN "ok" ELSE "failed"]
    /\ UNCHANGED <<envVars, bufVars, tpVars, cvVars, fzVars, mainVars>>

\* plugin.init()
NsInit ==
    /\ ns.pc = "init"
    /\ \E ok \in BOOLEAN, violated \in BOOLEAN :
          /\ ns' = IF ok THEN [ns EXCEPT !.pc = "get_audio_ports"]
                         ELSE NsFail(ns, "Error during initialization")
          /\ calls' = [Called(calls, <<"init">>, violated)
                          EXCEPT !.inited = IF ok THEN "ok" ELSE "failed"]
    /\ UNCHANGED <<envVars, bufVars, tpVars, cvVars, fzVars, mainVars>>

\* plugin.get_extension::<AudioPorts>(), and audio_ports.config() when the
\* plugin has the extension
NsGetAudioPorts ==
    /\ ns.pc = "get_audio_ports"
    /\ \E answer \in {"None", "config", "Err"}, violated \in BOOLEAN :
          /\ ns' = IF answer = "Err"
                   THEN NsFail(ns, "Error while querying 'audio-ports' IO configuration")
                   ELSE [ns EXCEPT !.pc = "get_params"]
          /\ calls' = Called(calls,
                             IF answer = "None"
                             THEN <<"get_extension">>
                             ELSE <<"get_extension", "audio_ports.config">>,
                             violated)
    /\ UNCHANGED <<envVars, bufVars, tpVars, cvVars, fzVars, mainVars>>

\* plugin.get_extension::<Params>(), then host.handle_callbacks_once()
NsGetParams ==
    /\ ns.pc = "get_params"
    /\ \E supported \in BOOLEAN, violated \in BOOLEAN :
          /\ ns' = IF supported THEN [ns EXCEPT !.pc = "info"]
                                ELSE NsReturn(ns, "Skipped")
          /\ calls' = Called(calls,
                             IF supported
                             THEN <<"get_extension", "handle_callbacks_once">>
                             ELSE <<"get_extension">>, violated)
    /\ UNCHANGED <<envVars, bufVars, tpVars, cvVars, fzVars, mainVars>>

\* params.info(): the plugin's parameters, each with the value it has now
NsInfo ==
    /\ ns.pc = "info"
    /\ \/ /\ ns' = NsFail(ns, "Failure while fetching the plugin's parameters")
          /\ UNCHANGED plug
       \/ \E n \in 0..MaxParams : \E values \in [1..n -> PluginValues] :
             /\ plug' = [plug EXCEPT !.values = values]
             /\ ns' = [ns EXCEPT !.num_params = n,
                                 !.pc = IF n = 0 THEN "run_once" ELSE "get_initial"]
    /\ \E violated \in BOOLEAN : calls' = Called(calls, <<"info">>, violated)
    /\ UNCHANGED <<runlog, bufVars, tpVars, cvVars, fzVars, mainVars>>

\* params.get(param_id) for the next key of param_infos, collected into
\* initial_param_values
NsGetInitial ==
    /\ ns.pc = "get_initial"
    /\ LET p == Len(ns.initial_param_values) + 1
       IN  \/ ns' = NsFail(ns, "params.get")
           \/ ns' = [ns EXCEPT
                        !.initial_param_values = Append(@, plug.values[p]),
                        !.pc = IF p = ns.num_params THEN "run_once" ELSE "get_initial"]
    /\ \E violated \in BOOLEAN : calls' = Called(calls, <<"get">>, violated)
    /\ UNCHANGED <<envVars, bufVars, tpVars, cvVars, fzVars, mainVars>>

\* The events are drawn and renamed, the buffers created, and
\* ProcessingTest::new_out_of_place(..)?.run_once(..) processes one block whose
\* setup closure stores the events in the input queue.
NsRunOnce ==
    /\ ns.pc = "run_once"
    /\ \E values \in [1..ns.num_params -> FuzzValues] :
          LET random_param_set_events == SetNamespace(RandomizeParamsAt(values, 0))
              queue == SortByTime(random_param_set_events)
          IN  \/ /\ ns' = NsFail(ns, "the run failed before its block")
                 /\ UNCHANGED envVars
                 /\ \E violated \in BOOLEAN :
                       calls' = Called(calls, <<"activate">>, violated)
              \/ /\ plug' = PluginProcess(plug, queue)
                 /\ runlog' = LogBlock(runlog, queue, BUFFER_SIZE)
                 /\ \E ok \in BOOLEAN, violated \in BOOLEAN :
                       /\ ns' = IF ~ok THEN NsFail(ns, "process failed")
                                ELSE [ns EXCEPT !.pc = IF ns.num_params = 0
                                                       THEN "thread_safety_check"
                                                       ELSE "get_actual"]
                       /\ calls' = Called(calls,
                                          <<"activate", "process", "deactivate">>,
                                          violated)
    /\ UNCHANGED <<bufVars, tpVars, cvVars, fzVars, mainVars>>

\* params.get(param_id) for the next key of param_infos, collected into
\* actual_param_values
NsGetActual ==
    /\ ns.pc = "get_actual"
    /\ LET p == Len(ns.actual_param_values) + 1
       IN  \/ ns' = NsFail(ns, "params.get")
           \/ ns' = [ns EXCEPT
                        !.actual_param_values = Append(@, plug.values[p]),
                        !.pc = IF p = ns.num_params THEN "thread_safety_check"
                                                   ELSE "get_actual"]
    /\ \E violated \in BOOLEAN : calls' = Called(calls, <<"get">>, violated)
    /\ UNCHANGED <<envVars, bufVars, tpVars, cvVars, fzVars, mainVars>>

NsVerdictUnchecked(c, ok) ==
    IF MapsEqual(c.actual_param_values, c.initial_param_values)
    THEN NsReturn(c, "Success")
    ELSE NsReturn(c, "Failed")

\* .context("Thread safety checks failed")?, then the comparison of the two
\* maps
NsChecked(c, ok) ==
    IF ~ok THEN NsFail(c, "Thread safety checks failed")
    ELSE IF MapsEqual(c.actual_param_values, c.initial_param_values)
    THEN NsReturn(c, "Success")
    ELSE NsReturn(c, "Failed")

\* host.thread_safety_check(), and the test's verdict
NsThreadSafetyCheck ==
    /\ ns.pc = "thread_safety_check"
    /\ ns' = NsChecked(ns, ThreadSafetyCheck(calls))
    /\ calls' = Checked(calls)
    /\ UNCHANGED <<envVars, bufVars, tpVars, cvVars, fzVars, mainVars>>

(***************************************************************************)
(* test_random_fuzz_params                                                 *)
(***************************************************************************)

\* const FUZZ_NUM_PERMUTATIONS and const FUZZ_RUNS_PER_PERMUTATION
FUZZ_NUM_PERMUTATIONS == 50
FUZZ_RUNS_PER_PERMUTATION == 5

FzIdle ==
    [pc |-> "idle", result |-> "none", why |-> "", num_params |-> 0,
     note_ports |-> FALSE,
     permutation |-> 0,             \* the permutations started so far
     block |-> 0,                   \* the blocks of the current run so far
     random_param_set_events |-> None,
     drawn |-> <<>>,                \* history: the events of this permutation
     input_events |-> <<>>]         \* process_data.input_events.events

IdleFuzz == fz = FzIdle

FzReturn(c, test_status) == [c EXCEPT !.pc = "done", !.result = test_status]
FzFail(c, why) == [c EXCEPT !.pc = "done", !.result = "Err", !.why = why]

LeaveEvents(opt) == opt

\* Option::take(): what stays behind.
TakeEvents(opt) == None

\* The setup closure of the run: the first call moves the permutation's events
\* into the input queue, every call adds note events when the plugin has note
\* ports.
FzSetup(c, notes) ==
    LET stored == IF c.random_param_set_events # None
                  THEN c.random_param_set_events[1]
                  ELSE c.input_events
        filled == IF c.note_ports THEN FillEventQueue(stored, notes) ELSE stored
    IN  [c EXCEPT !.random_param_set_events = TakeEvents(@),
                  !.input_events = filled]

\* library.create_plugin(plugin_id, host.clone())
FzCreatePlugin ==
    /\ fz.pc = "create_plugin"
    /\ \E ok \in BOOLEAN, violated \in BOOLEAN :
          /\ fz' = IF ok THEN [fz EXCEPT !.pc = "init"]
                         ELSE FzFail(fz, "Could not create the plugin instance")
          /\ calls' = [Called(calls, <<"create_plugin">>, violated)
                          EXCEPT !.created = IF ok THEN "ok" ELSE "failed"]
    /\ UNCHANGED <<envVars, bufVars, tpVars, cvVars, nsVars, mainVars>>

\* plugin.init()
FzInit ==
    /\ fz.pc = "init"
    /\ \E ok \in BOOLEAN, violated \in BOOLEAN :
          /\ fz' = IF ok THEN [fz EXCEPT !.pc = "get_extensions"]
                         ELSE FzFail(fz, "Error during initialization")
          /\ calls' = [Called(calls, <<"init">>, violated)
                          EXCEPT !.inited = IF ok THEN "ok" ELSE "failed"]
    /\ UNCHANGED <<envVars, bufVars, tpVars, cvVars, nsVars, mainVars>>

\* plugin.get_extension::<AudioPorts>(), ::<NotePorts>() and ::<Params>(), then
\* host.handle_callbacks_once()
FzGetExtensions ==
    /\ fz.pc = "get_extensions"
    /\ \E audio \in BOOLEAN, notes \in BOOLEAN, params \in BOOLEAN,
          violated \in BOOLEAN :
          /\ fz' = IF params THEN [fz EXCEPT !.pc = "configs", !.note_ports = notes]
                             ELSE FzReturn(fz, "Skipped")
          /\ calls' = Called(calls,
                             IF params
                             THEN <<"get_extension", "handle_callbacks_once">>
                             ELSE <<"get_extension">>, violated)
    /\ UNCHANGED <<envVars, bufVars, tpVars, cvVars, nsVars, mainVars>>

\* audio_ports.config(), note_ports.config() and params.info(), then the
\* fuzzer, the note generator and the buffers of BUFFER_SIZE samples
FzConfigs ==
    /\ fz.pc = "configs"
    /\ \/ /\ \E why \in {"Could not fetch the plugin's audio port config",
                         "Could not fetch the plugin's note port config",
                         "Could not fetch the plugin's parameters"} :
                fz' = FzFail(fz, why)
          /\ UNCHANGED plug
       \/ \E n \in 0..MaxParams : \E values \in [1..n -> PluginValues] :
             /\ plug' = [plug EXCEPT !.values = values]
             /\ fz' = [fz EXCEPT !.num_params = n, !.pc = "permutation"]
    /\ \E violated \in BOOLEAN : calls' = Called(calls, <<"info">>, violated)
    /\ UNCHANGED <<runlog, bufVars, tpVars, cvVars, nsVars, mainVars>>

\* The head of the permutation loop: the events of the permutation are drawn at
\* time 0, and ProcessingTest::new_out_of_place(..)?.run(..) starts a run.
FzStartPermutation ==
    /\ fz.pc = "permutation"
    /\ \E values \in [1..fz.num_params -> FuzzValues] :
          LET events == RandomizeParamsAt(values, 0)
          IN  \/ /\ fz' = FzFail([fz EXCEPT !.permutation = @ + 1],
                                 "the run failed before its first block")
                 /\ UNCHANGED runlog
                 /\ \E violated \in BOOLEAN :
                       calls' = Called(calls, <<"activate">>, violated)
              \/ /\ fz' = [fz EXCEPT !.pc = "block",
                                     !.permutation = @ + 1,
                                     !.block = 0,
                                     !.random_param_set_events = Some(events),
                                     !.drawn = events,
                                     !.input_events = <<>>]
                 /\ runlog' = [runlog EXCEPT !.queues = <<>>]
                 /\ \E violated \in BOOLEAN :
                       calls' = Called(calls, <<"activate">>, violated)
    /\ UNCHANGED <<plug, bufVars, tpVars, cvVars, nsVars, mainVars>>

\* What follows a run that returned Ok: the next permutation, or after the
\* last one the call of host.thread_safety_check().
FzAfterRun(c) ==
    LET d == [c EXCEPT !.input_events = <<>>, !.drawn = <<>>, !.block = 0,
                       !.random_param_set_events = None]
    IN  IF c.permutation < FUZZ_NUM_PERMUTATIONS
        THEN [d EXCEPT !.pc = "permutation"]
        ELSE [d EXCEPT !.pc = "thread_safety_check"]

\* One block of the run: the driver resets the input queue, calls the setup
\* closure, sorts the queue and calls the plugin's process().
FzBlock ==
    /\ fz.pc = "block"
    /\ \E notes \in NoteChoices :
          LET reset == [fz EXCEPT !.input_events = ResetQueue(@)]
              ready == FzSetup(reset, notes)
              queue == SortByTime(ready.input_events)
              after == [ready EXCEPT !.block = @ + 1, !.input_events = queue]
          IN  \/ /\ fz.note_ports
                 /\ fz' = FzFail(ready, "the setup of the block failed")
                 /\ UNCHANGED envVars
                 /\ UNCHANGED calls
              \/ /\ plug' = PluginProcess(plug, queue)
                 /\ runlog' = LogBlock(runlog, queue, BUFFER_SIZE)
                 /\ \E ok \in BOOLEAN, violated \in BOOLEAN :
                       /\ fz' = IF ~ok THEN FzFail(after, "process failed")
                                ELSE IF after.block < FUZZ_RUNS_PER_PERMUTATION
                                THEN after
                                ELSE FzAfterRun(after)
                       /\ calls' = Called(calls,
                                          IF ok /\ after.block < FUZZ_RUNS_PER_PERMUTATION
                                          THEN <<"process">>
                                          ELSE <<"process", "deactivate">>,
                                          violated)
    /\ UNCHANGED <<bufVars, tpVars, cvVars, nsVars, mainVars>>

\* host.thread_safety_check(), and the test's verdict
FzThreadSafetyCheck ==
    /\ fz.pc = "thread_safety_check"
    /\ LET ok == ThreadSafetyCheck(calls)
       IN  fz' = IF ok THEN FzReturn(fz, "Success")
                       ELSE FzFail(fz, "Thread safety checks failed")
    /\ calls' = Checked(calls)
    /\ UNCHANGED <<envVars, bufVars, tpVars, cvVars, nsVars, mainVars>>

(***************************************************************************)
(* main: the command line                                                  *)
(***************************************************************************)

MaxArgs == 3

\* The words a command line is made of here: the two subcommands, their
\* flags, and two plugin paths.
Words == {"validate", "list", "--json", "--in-process", "a.clap", "b.clap"}
Flags == {"--json", "--in-process"}

Range(seq) == {seq[i] : i \in DOMAIN seq}
Tail1(seq) == SubSeq(seq, 2, Len(seq))

\* The command lines: up to MaxArgs words, no word twice.
CommandLines ==
    {args \in UNION {[1..n -> Words] : n \in 0..MaxArgs} :
        \A i, j \in DOMAIN args : i # j => args[i] # args[j]}

NoCommand == [name |-> "none", paths |-> <<>>, in_process |-> FALSE, json |-> FALSE]

\* Cli::parse() for the derive of Cli and Commands: the subcommand first,
\* then for Validate at least one path and the flags --in-process and --json,
\* for List the flag --json; anything else is a usage error.
ParseCli(args) ==
    IF args = <<>> THEN NoCommand
    ELSE LET rest == Tail1(args)
             paths == SelectSeq(rest, LAMBDA w : w \notin Flags)
         IN  IF args[1] = "validate" /\ paths # <<>>
             THEN [name |-> "Validate", paths |-> paths,
                   in_process |-> "--in-process" \in Range(rest),
                   json |-> "--json" \in Range(rest)]
             ELSE IF args[1] = "list" /\ Range(rest) \subseteq {"--json"}
             THEN [name |-> "List", paths |-> <<>>, in_process |-> FALSE,
                   json |-> "--json" \in Range(rest)]
             ELSE NoCommand

CliIdle ==
    [pc |-> "idle", args |-> <<>>, command |-> NoCommand,
     ended |-> "no", exit_code |-> None, validated |-> <<>>]

IdleMain == cli = CliIdle

\* let cli = Cli::parse(): a usage error ends the process with exit code 2.
MainParse ==
    /\ cli.pc = "parse"
    /\ LET command == ParseCli(cli.args)
       IN  cli' = IF command = NoCommand
                  THEN [cli EXCEPT !.pc = "done", !.ended = "exit",
                                   !.exit_code = Some(2)]
                  ELSE [cli EXCEPT !.pc = "match", !.command = command]
    /\ UNCHANGED <<bufVars, tpVars, cvVars, envVars, nsVars, fzVars, logVars>>

\* Commands::Validate { .. } => todo!("Implement the validator"): the arm
\* panics, and the process ends with the exit code of a panic.
MainValidate ==
    /\ cli.pc = "match"
    /\ cli.command.name = "Validate"
    /\ cli' = [cli EXCEPT !.pc = "done", !.ended = "panic",
                          !.exit_code = Some(101)]
    /\ UNCHANGED <<bufVars, tpVars, cvVars, envVars, nsVars, fzVars, logVars>>

\* Commands::List { json } => {}: the arm is empty, main returns.
MainList ==
    /\ cli.pc = "match"
    /\ cli.command.name = "List"
    /\ cli' = [cli EXCEPT !.pc = "done", !.ended = "return",
                          !.exit_code = Some(0)]
    /\ UNCHANGED <<bufVars, tpVars, cvVars, envVars, nsVars, fzVars, logVars>>

(***************************************************************************)
(* Specifications                                                          *)
(***************************************************************************)
InitBuffers ==
    /\ inputs \in PortLists
    /\ outputs \in PortLists
    /\ bufs = NoBufs
    /\ ret = NoRet
    /\ IdleTransport
    /\ IdleConvert
    /\ IdleEnv
    /\ IdleNamespace
    /\ IdleFuzz
    /\ IdleMain
    /\ IdleCalls

NextBuffers ==
    \/ New
    \/ CallLen
    \/ CallInputChannelPointers
    \/ CallOutputChannelPointers

SpecBuffers == InitBuffers /\ [][NextBuffers]_vars

\* The state after ProcessData::new, for each choice of its arguments and of
\* the build's overflow checks.
InitTransport ==
    /\ \E sr \in SampleRates, t \in Tempos, ts \in TimeSigs :
          /\ pd = NewProcessData(sr, t, ts[1], ts[2])
          /\ new_args = NewArgs(sr, t, ts[1], ts[2])
    /\ overflow_checks \in BOOLEAN
    /\ advanced = <<>>
    /\ status = "ok"
    /\ IdleBuffers
    /\ IdleConvert
    /\ IdleEnv
    /\ IdleNamespace
    /\ IdleFuzz
    /\ IdleMain
    /\ IdleCalls

NextTransport == AdvanceTransport

SpecTransport == InitTransport /\ [][NextTransport]_vars

\* The entry of test_convert_params.
InitConvert ==
    /\ cv = [CvIdle EXCEPT !.pc = "create_plugin"]
    /\ cvSeen = CvSeenIdle
    /\ IdleBuffers
    /\ IdleTransport
    /\ IdleEnv
    /\ IdleNamespace
    /\ IdleFuzz
    /\ IdleMain
    /\ IdleCalls

NextConvert ==
    \/ CvCreatePlugin
    \/ CvInit
    \/ CvGetExtension
    \/ CvInfo
    \/ CvValueToText
    \/ CvTextToValue
    \/ CvValueToTextAgain
    \/ CvTextToValueAgain
    \/ CvThreadSafetyCheck

SpecConvert == InitConvert /\ [][NextConvert]_vars

\* The entry of test_wrong_namespace_set_params, with a plugin that looks at
\* the namespace of its events or one that does not.
InitNamespace ==
    /\ ns = [NsIdle EXCEPT !.pc = "create_plugin"]
    /\ plug \in {[PlugIdle EXCEPT !.checks_namespace = b] : b \in BOOLEAN}
    /\ runlog = RunlogIdle
    /\ IdleBuffers
    /\ IdleTransport
    /\ IdleConvert
    /\ IdleFuzz
    /\ IdleMain
    /\ IdleCalls

NextNamespace ==
    \/ NsCreatePlugin
    \/ NsInit
    \/ NsGetAudioPorts
    \/ NsGetParams
    \/ NsInfo
    \/ NsGetInitial
    \/ NsRunOnce
    \/ NsGetActual
    \/ NsThreadSafetyCheck

SpecNamespace == InitNamespace /\ [][NextNamespace]_vars

\* The entry of test_random_fuzz_params.
InitFuzz ==
    /\ fz = [FzIdle EXCEPT !.pc = "create_plugin"]
    /\ plug = PlugIdle
    /\ runlog = RunlogIdle
    /\ IdleBuffers
    /\ IdleTransport
    /\ IdleConvert
    /\ IdleNamespace
    /\ IdleMain
    /\ IdleCalls

NextFuzz ==
    \/ FzCreatePlugin
    \/ FzInit
    \/ FzGetExtensions
    \/ FzConfigs
    \/ FzStartPermutation
    \/ FzBlock
    \/ FzThreadSafetyCheck

SpecFuzz == InitFuzz /\ [][NextFuzz]_vars

\* The start of the process, on any of the command lines.
InitMain ==
    /\ cli \in {[CliIdle EXCEPT !.pc = "parse", !.args = args] : args \in CommandLines}
    /\ IdleBuffers
    /\ IdleTransport
    /\ IdleConvert
    /\ IdleEnv
    /\ IdleNamespace
    /\ IdleFuzz
    /\ IdleCalls

NextMain ==
    \/ MainParse
    \/ MainValidate
    \/ MainList

SpecMain == InitMain /\ [][NextMain]_vars

\* A run of one of the three parameter tests.
InitParamTests ==
    /\ \/ /\ cv = [CvIdle EXCEPT !.pc = "create_plugin"]
          /\ IdleNamespace
          /\ IdleFuzz
       \/ /\ cv = CvIdle
          /\ ns = [NsIdle EXCEPT !.pc = "create_plugin"]
          /\ IdleFuzz
       \/ /\ cv = CvIdle
          /\ IdleNamespace
          /\ fz = [FzIdle EXCEPT !.pc = "create_plugin"]
    /\ cvSeen = CvSeenIdle
    /\ IdleEnv
    /\ IdleBuffers
    /\ IdleTransport
    /\ IdleMain
    /\ IdleCalls

NextParamTests ==
    \/ NextConvert
    \/ NextNamespace
    \/ NextFuzz

SpecParamTests == InitParamTests /\ [][NextParamTests]_vars

(***************************************************************************)
(* The claims                                                              *)
(***************************************************************************)

\* The sample counts that occur among the channels of one direction.
CountsOf(ports) ==
    UNION {{ports[p][c] : c \in DOMAIN ports[p]} : p \in DOMAIN ports}

\* The sample counts that occur among all channels of both directions.
AllSampleCounts == CountsOf(inputs) \cup CountsOf(outputs)

\* C1: OutOfPlaceAudioBuffers::new fails if and only if two channels, anywhere
\* among the input and output ports taken together, differ in sample count.
C1_ErrIffInconsistent ==
    bufs.state # "unbuilt" =>
        (bufs.state = "Err" <=> Cardinality(AllSampleCounts) > 1)

\* C1's case: every input channel agrees, every output channel agrees, the two
\* directions disagree, and new() has failed.
C1_Witness ==
    /\ bufs.state = "Err"
    /\ Cardinality(CountsOf(inputs)) = 1
    /\ Cardinality(CountsOf(outputs)) = 1

\* C2: after a successful new(), len() is the common sample count of all
\* channels, zero-channel ports do not matter, and it is 0 without channels.
C2_LenIsCommonCount ==
    ret.fn = "len" =>
        /\ \A n \in AllSampleCounts : ret.len = n
        /\ AllSampleCounts = {} => ret.len = 0

\* C2's case: a zero-channel port beside a port with channels of 8 samples, and
\* len() has returned.
C2_Witness ==
    /\ ret.fn = "len"
    /\ ret.len = 8
    /\ \E p \in DOMAIN inputs : inputs[p] = <<>>
    /\ \E p \in DOMAIN outputs : outputs[p] = <<>>

\* C2's other case: only zero-channel ports, and len() has returned 0.
C2_WitnessNoChannels ==
    /\ ret.fn = "len"
    /\ Len(inputs) > 0
    /\ AllSampleCounts = {}

\* C3: output_channel_pointers() returns, for every output port p and channel
\* c, the base pointer of outputs[p][c]: one row per output port, one entry per
\* output channel.
C3_OutputTable ==
    ret.fn = "output_channel_pointers" =>
        /\ Len(ret.ptrs) = Len(outputs)
        /\ \A p \in DOMAIN outputs :
              /\ Len(ret.ptrs[p]) = Len(outputs[p])
              /\ \A c \in DOMAIN outputs[p] :
                    ret.ptrs[p][c] = AsPtr("out", p, c, outputs[p][c])

\* The exact sum of the arguments of the completed advance_transport calls.
RECURSIVE Total(_)
Total(h) == IF h = <<>> THEN <<>> ELSE Add(Total(Front(h)), Last(h))

AbsDiff(a, b) == IF Less(a, b) THEN Sub(b, a) ELSE Sub(a, b)

\* Whether the fixed-point position r is the exact quotient
\* num * 2^shift / den rounded to an integer, up to the rounding error of the
\* f64 operations (a quarter of a unit): 4 * |r * den - num * 2^shift| <= 3 * den.
\* den is given as two small factors.
NearQuotient(r, num, shift, den1, den2) ==
    Leq(ShiftLeft(AbsDiff(Mul(Mul(r, den1), den2), ShiftLeft(num, shift)), 2),
        Mul(Mul(Limbs(den1), den2), 3))

\* C4: advance_transport(n) adds n to the sample position and then sets
\* song_pos_beats = round(sample_pos / sample_rate / 60 * tempo * BEAT_SCALE)
\* and song_pos_seconds = round(sample_pos / sample_rate * SEC_SCALE) from the
\* accumulated sample position: after any calls the positions are those of one
\* call with the sum of the arguments (while the sum is a u32), they are the
\* rounded exact quotients, and 24000 samples at 48000 Hz and tempo 120 give
\* 0.5 * SEC_SCALE seconds and 1.0 * BEAT_SCALE beats.
C4_PositionsFromAccumulated ==
    LET total == Total(advanced)
        ti == pd.transport_info
        fresh == NewProcessData(pd.sample_rate, ti.tempo, ti.tsig_num, ti.tsig_denom)
    IN  status # "idle" =>
        /\ pd.sample_pos = WrapU32(total)
        /\ BitLen(total) <= SamplePosBits =>
              pd = AdvanceTransportBody(fresh, total, total)
        /\ NearQuotient(ti.song_pos_seconds, pd.sample_pos, SecTimeShift,
                        pd.sample_rate, 1)
        /\ NearQuotient(ti.song_pos_beats, Mul(pd.sample_pos, ti.tempo),
                        BeatTimeShift, pd.sample_rate, 60)
        /\ (advanced = <<Limbs(24000)>> /\ pd.sample_rate = 48000 /\ ti.tempo = 120) =>
              /\ ti.song_pos_seconds = Pow2(SecTimeShift - 1)
              /\ ti.song_pos_beats = Pow2(BeatTimeShift)

\* C4's case: two calls with different arguments have completed.
C4_Witness ==
    /\ advanced = <<Limbs(24000), Limbs(512)>>
    /\ pd.sample_pos = Limbs(24512)
    /\ pd.transport_info.song_pos_beats # <<>>

\* C4's example: one call with 24000 samples at 48000 Hz and tempo 120.
C4_WitnessExample ==
    /\ advanced = <<Limbs(24000)>>
    /\ pd.sample_rate = 48000
    /\ pd.transport_info.tempo = 120
    /\ pd.transport_info.song_pos_beats = Pow2(BeatTimeShift)

\* C5: no advance_transport call lowers the sample position, song_pos_beats or
\* song_pos_seconds, also when the accumulated sample count exceeds the range
\* of the u32 sample position.
C5_Monotone ==
    [][/\ Leq(pd.sample_pos, pd'.sample_pos)
       /\ Leq(pd.transport_info.song_pos_beats, pd'.transport_info.song_pos_beats)
       /\ Leq(pd.transport_info.song_pos_seconds,
              pd'.transport_info.song_pos_seconds)]_vars

\* C5, as far as the code keeps it: a call that leaves the accumulated sample
\* count within the u32 lowers nothing.
C5_MonotoneWithinU32 ==
    [][BitLen(Total(advanced')) <= SamplePosBits =>
        /\ Leq(pd.sample_pos, pd'.sample_pos)
        /\ Leq(pd.transport_info.song_pos_beats, pd'.transport_info.song_pos_beats)
        /\ Leq(pd.transport_info.song_pos_seconds,
               pd'.transport_info.song_pos_seconds)]_vars

\* C6: test_convert_params returns Success only if every round trip it made
\* matched: a repeated value_to_text that gave another text than the first, a
\* final value that is not equal to the reconverted value, or a repeated
\* conversion that was unsupported makes the test end with an error, never
\* with Success or Skipped.
C6_MismatchFails ==
    /\ cvSeen.mismatch => cv.result = "Err"
    /\ cv.result \in {"Success", "Skipped"} => ~cvSeen.mismatch

\* C6's case: after a round trip that matched, the final value of the next one
\* differs from the reconverted value, and the test has ended.
C6_Witness ==
    /\ cvSeen.mismatch
    /\ cv.pc = "done"
    /\ cv.value > 1
    /\ cv.why = "values not consistent"

\* C6's other case: every round trip of two parameters matched and the test
\* has returned Success.
C6_WitnessSuccess ==
    /\ cv.result = "Success"
    /\ cv.num_params = MaxParams
    /\ cvSeen.text_to_value = MaxParams * VALUES_PER_PARAM

\* C7: with expected = 6 * the number of parameters, a number of supported
\* value_to_text (or text_to_value) calls that is neither 0 nor expected makes
\* the test fail; the test returns Success only with both supported for all
\* expected calls, and Skipped when it ends without an error and either is
\* supported for no call.
C7_AllOrNothing ==
    LET expected == cv.num_params * VALUES_PER_PARAM
        v == cvSeen.value_to_text
        t == cvSeen.text_to_value
    IN  /\ (cv.pc = "done" /\ (v \notin {0, expected} \/ t \notin {0, expected}))
              => cv.result = "Err"
        /\ cv.pc = "thread_safety_check" => (v \in {0, expected} /\ t \in {0, expected})
        /\ cv.result = "Success" => (v = expected /\ t = expected /\ expected > 0)
        /\ (cv.pc = "done" /\ cv.result # "Err" /\ (v = 0 \/ t = 0))
              => cv.result = "Skipped"

\* C7's case: value_to_text was supported for every call, text_to_value for
\* some only, and the test has failed on the all-or-nothing check.
C7_Witness ==
    /\ cv.pc = "done"
    /\ cv.result = "Err"
    /\ cv.why = "text_to_value supported for some calls only"
    /\ cvSeen.value_to_text = cv.num_params * VALUES_PER_PARAM

\* C7's other case: value_to_text supported for every call, text_to_value for
\* none, and the test has returned Skipped.
C7_WitnessSkipped ==
    /\ cv.result = "Skipped"
    /\ cv.num_params > 0
    /\ cvSeen.value_to_text = cv.num_params * VALUES_PER_PARAM
    /\ cvSeen.text_to_value = 0

\* Whether the two captured maps hold equal values for the same parameters.
SameValues(a, b) ==
    /\ Len(a) = Len(b)
    /\ \A k \in DOMAIN a : a[k] = b[k] /\ a[k] # "NaN"

\* Whether the test has captured both maps around its one block: it has come
\* to its thread-safety check.
NsBothCaptured ==
    /\ \/ ns.pc = "thread_safety_check"
       \/ ns.result \in {"Success", "Failed"}
       \/ ns.result = "Err" /\ ns.why = "Thread safety checks failed"
    /\ runlog.blocks = 1
    /\ Len(ns.initial_param_values) = ns.num_params
    /\ Len(ns.actual_param_values) = ns.num_params

C8_WitnessSuccess ==
    /\ ns.result = "Success"
    /\ ns.num_params = MaxParams
    /\ plug.checks_namespace
    /\ runlog.queues[1][1].value # ns.initial_param_values[1]

ParamEvents(queue) == SelectSeq(queue, LAMBDA e : e.type = "ParamValue")

FzRunFailed ==
    /\ fz.result = "Err"
    /\ fz.why \in {"the run failed before its first block",
                   "the setup of the block failed", "process failed"}

\* C9: test_random_fuzz_params, when no run fails, processes
\* FUZZ_NUM_PERMUTATIONS * FUZZ_RUNS_PER_PERMUTATION = 250 blocks of
\* BUFFER_SIZE = 512 samples; in each permutation the random parameter events
\* are in the first block only, all at sample offset 0, and the later blocks
\* carry none; a failing run ends the test in an error, and nothing is
\* processed after it.
C9_FuzzBlocks ==
    /\ runlog.samples = BUFFER_SIZE * runlog.blocks
    /\ fz.pc \in {"permutation", "thread_safety_check"} =>
          runlog.blocks = fz.permutation * FUZZ_RUNS_PER_PERMUTATION
    /\ fz.pc = "block" =>
          /\ fz.block < FUZZ_RUNS_PER_PERMUTATION
          /\ Len(runlog.queues) = fz.block
          /\ runlog.blocks =
                (fz.permutation - 1) * FUZZ_RUNS_PER_PERMUTATION + fz.block
    /\ (fz.pc = "thread_safety_check" \/ fz.result = "Success"
            \/ (fz.result = "Err" /\ fz.why = "Thread safety checks failed")) =>
          /\ fz.permutation = FUZZ_NUM_PERMUTATIONS
          /\ runlog.blocks = FUZZ_NUM_PERMUTATIONS * FUZZ_RUNS_PER_PERMUTATION
          /\ runlog.blocks = 250
          /\ runlog.samples = 250 * 512
    /\ \A b \in DOMAIN runlog.queues :
          /\ b = 1 =>
                /\ Len(ParamEvents(runlog.queues[b])) = fz.num_params
                /\ \A e \in DOMAIN ParamEvents(runlog.queues[b]) :
                      /\ ParamEvents(runlog.queues[b])[e].time = 0
                      /\ ParamEvents(runlog.queues[b])[e].param_id = e
                /\ fz.pc = "block" => ParamEvents(runlog.queues[b]) = fz.drawn
          /\ b > 1 => ParamEvents(runlog.queues[b]) = <<>>
    /\ FzRunFailed =>
          /\ fz.pc = "done"
          /\ runlog.blocks <= fz.permutation * FUZZ_RUNS_PER_PERMUTATION
          /\ ~ ENABLED NextFuzz

\* C9's case: the test came through all its blocks and returned Success, for a
\* plugin with parameters and note ports.
C9_Witness ==
    /\ fz.result = "Success"
    /\ fz.num_params = MaxParams
    /\ fz.note_ports
    /\ runlog.blocks = 250
    /\ Len(runlog.queues) = FUZZ_RUNS_PER_PERMUTATION
    /\ Len(ParamEvents(runlog.queues[1])) = MaxParams
    /\ \E b \in 2..FUZZ_RUNS_PER_PERMUTATION : runlog.queues[b] # <<>>

\* C9's other case: a run failed in a later permutation, after whole runs.
C9_WitnessFailure ==
    /\ FzRunFailed
    /\ fz.why = "process failed"
    /\ fz.permutation > 1
    /\ fz.num_params > 0
    /\ runlog.blocks < 250

\* C10: the validate command runs the test matrix over each given path and
\* ends with exit code 0, 1 or 2; it never ends in another way, such as a
\* panic.
C10_ValidateExitCodes ==
    (cli.pc = "done" /\ cli.command.name = "Validate") =>
        /\ cli.ended # "panic"
        /\ cli.exit_code \in {Some(0), Some(1), Some(2)}
        /\ cli.validated = cli.command.paths

\* C11: after ProcessData::new and after any sequence of advance_transport
\* calls the transport flags are the five of HAS_TEMPO, HAS_BEATS_TIMELINE,
\* HAS_SECONDS_TIMELINE, HAS_TIME_SIGNATURE and IS_PLAYING, and tempo and the
\* time signature are the constructor's arguments: apart from sample_pos,
\* song_pos_beats and song_pos_seconds the ProcessData is as new() made it.
C11_FlagsAndTempoKept ==
    /\ pd.transport_info.flags =
          {"HAS_TEMPO", "HAS_BEATS_TIMELINE", "HAS_SECONDS_TIMELINE",
           "HAS_TIME_SIGNATURE", "IS_PLAYING"}
    /\ Cardinality(pd.transport_info.flags) = 5
    /\ pd.transport_info.tempo = new_args.tempo
    /\ pd.transport_info.tsig_num = new_args.time_sig_numerator
    /\ pd.transport_info.tsig_denom = new_args.time_sig_denominator
    /\ pd.sample_rate = new_args.sample_rate
    /\ [pd EXCEPT !.sample_pos = <<>>,
                  !.transport_info.song_pos_beats = <<>>,
                  !.transport_info.song_pos_seconds = <<>>]
          = NewProcessData(new_args.sample_rate, new_args.tempo,
                           new_args.time_sig_numerator,
                           new_args.time_sig_denominator)

\* C11's case: MaxCalls calls have completed on a ProcessData made with
\* tempo 90 and time signature 6/8, and both song positions have moved.
C11_Witness ==
    /\ status = "ok"
    /\ Len(advanced) = MaxCalls
    /\ new_args.tempo = 90
    /\ new_args.time_sig_numerator = 6
    /\ new_args.time_sig_denominator = 8
    /\ pd.sample_pos # <<>>
    /\ pd.transport_info.song_pos_beats # <<>>
    /\ pd.transport_info.song_pos_seconds # <<>>

\* The test that is running, as far as the three tests have the same fields.
Test ==
    IF cv.pc # "idle" THEN [name |-> "convert", pc |-> cv.pc, result |-> cv.result, why |-> cv.why]
    ELSE IF ns.pc # "idle" THEN [name |-> "namespace", pc |-> ns.pc, result |-> ns.result, why |-> ns.why]
    ELSE [name |-> "fuzz", pc |-> fz.pc, result |-> fz.result, why |-> fz.why]

ProcessingCalls == {"activate", "process", "deactivate"}

\* C12: in each of the three parameter tests the first call is create_plugin,
\* init is only called on a created plugin, and every other call (get_extension,
\* the parameter queries, the processing run) only after init has succeeded; a
\* failed create or init ends the test in an error with no extension queried;
\* a test that ended on a get_extension without the params extension returned
\* Skipped, and a Skipped test has neither activated nor processed.
C12_LifecycleOrder ==
    /\ calls.early = {}
    /\ calls.made # {} => "create_plugin" \in calls.made
    /\ "init" \in calls.made => calls.created = "ok"
    /\ calls.made \ {"create_plugin", "init"} # {} => calls.inited = "ok"
    /\ (calls.created = "failed" \/ calls.inited = "failed") =>
          /\ Test.pc = "done"
          /\ Test.result = "Err"
          /\ calls.made \subseteq {"create_plugin", "init"}
    /\ (Test.pc = "done" /\ calls.last = "get_extension") => Test.result = "Skipped"
    /\ Test.result = "Skipped" => calls.made \cap ProcessingCalls = {}

\* C12's case: a test went through create, init, the extension queries, the
\* parameter queries and a processing run.
C12_Witness ==
    /\ Test.name = "namespace"
    /\ Test.result = "Failed"
    /\ {"create_plugin", "init", "get_extension", "info", "get", "process"}
          \subseteq calls.made

\* C12's other cases: init failed, and the params extension is absent.
C12_WitnessInitFailed ==
    /\ Test.name = "fuzz"
    /\ calls.inited = "failed"
    /\ Test.result = "Err"

C12_WitnessSkipped ==
    /\ Test.name = "fuzz"
    /\ Test.result = "Skipped"
    /\ calls.last = "get_extension"

\* C13: no test returns Success unless host.thread_safety_check() was its last
\* call and passed, and a thread-safety violation recorded at any point of a
\* test makes its outcome an error.
C13_ViolationIsError ==
    /\ Test.result = "Success" =>
          calls.last = "thread_safety_check" /\ calls.check = "passed"
    /\ (Test.pc = "done" /\ calls.violation) => Test.result = "Err"

\* C13, as the code has it: Success needs a passed check as the last call; a
\* recorded violation makes the outcome an error in every test that comes to
\* its check, also where the outcome would have been Skipped for want of
\* conversions or Failed for changed values; only a test that returned Skipped
\* because the params extension is absent has not asked the host, and keeps
\* its Skipped.
C13_CheckedBeforeVerdict ==
    /\ Test.result = "Success" =>
          /\ calls.last = "thread_safety_check"
          /\ calls.check = "passed"
          /\ ~calls.violation
    /\ (Test.pc = "done" /\ calls.violation) =>
          \/ Test.result = "Err"
          \/ /\ Test.result = "Skipped"
             /\ calls.check = "none"
             /\ calls.last = "get_extension"
    /\ calls.check = "failed" =>
          /\ Test.result = "Err"
          /\ Test.why = "Thread safety checks failed"
    /\ calls.check # "none" => Test.pc = "done" /\ calls.last = "thread_safety_check"
    /\ (Test.result \in {"Skipped", "Failed"} /\ calls.last # "get_extension") =>
          /\ calls.last = "thread_safety_check"
          /\ calls.check = "passed"

\* C13's case: the values changed in test_wrong_namespace_set_params, a
\* violation was recorded, and the test ended in the error of the check.
C13_Witness ==
    /\ Test.name = "namespace"
    /\ calls.violation
    /\ calls.check = "failed"
    /\ Len(ns.actual_param_values) = ns.num_params
    /\ ns.num_params > 0
    /\ ~MapsEqual(ns.actual_param_values, ns.initial_param_values)
    /\ Test.result = "Err"

\* C13's other cases: no conversion supported in test_convert_params and a
\* violation; Success after a passed check in test_random_fuzz_params.
C13_WitnessNoConversions ==
    /\ Test.name = "convert"
    /\ calls.check = "failed"
    /\ cv.num_params > 0
    /\ cv.num_supported_value_to_text = 0
    /\ Test.result = "Err"

C13_WitnessSuccess ==
    /\ Test.name = "fuzz"
    /\ Test.result = "Success"
    /\ calls.check = "passed"

=============================================================================
